---- MODULE Spec2Model ----
(***************************************************************************)
(* Smart Library System: the server's accounts, session tokens, the        *)
(* authorization gate, the per-user book store and the activity log.       *)
(*                                                                         *)
(* A request handler is an async function: the code between two awaited    *)
(* database operations runs without interruption, and requests interleave  *)
(* at the awaits.  Each action below is one database operation together    *)
(* with the synchronous code that follows it up to the next database       *)
(* operation or the response.                                              *)
(*                                                                         *)
(* Strings are sequences of one-character strings; a missing (undefined)   *)
(* or empty body field is the empty sequence: the handlers only test such  *)
(* a field for truthiness before using it.                                 *)
(***************************************************************************)
EXTENDS Integers, Sequences, FiniteSets, TLC

\* ------------------------------------------------------------------ bounds
MaxUsers == 2
MaxCreates == 2
MaxChanges == 1
MaxTicks == 2
MaxInFlight == 2
MaxResets == 2
MaxHours == 2
MaxRaces == 2

\* ------------------------------------------------------- program constants
\* jwt expiresIn '30d', in hours
JWT_EXPIRE == 720
\* new Date().getFullYear() when the Book schema is loaded
CurrentYear == 2026
YearMin == 1000
IsbnMinLen == 10
IsbnMaxLen == 17
TitleMaxLen == 200
AuthorMaxLen == 100
DefaultLimit == 50
\* the clock advances in steps of half a token lifetime
TickHours == JWT_EXPIRE \div 2
\* a reset token is valid for 3600000 ms
ResetHours == 1

\* ----------------------------------------------------------------- strings
IsbnA == <<"9","7","8","0","4","4","1","0","1","3">>
IsbnB == <<"0","3","0","6","4","0","6","1","5","2">>
IsbnShort == <<"1","2","3","4","5","6","7","8","9">>
Pad(s) == <<" ">> \o s \o <<" ">>
Blank == <<" ">>
Missing == <<>>

IsSpace(c) == c = " "

RECURSIVE TrimLeft(_)
TrimLeft(s) ==
    IF s = <<>> THEN <<>>
    ELSE IF IsSpace(Head(s)) THEN TrimLeft(Tail(s)) ELSE s

RECURSIVE TrimRight(_)
TrimRight(s) ==
    IF s = <<>> THEN <<>>
    ELSE IF IsSpace(s[Len(s)]) THEN TrimRight(SubSeq(s, 1, Len(s) - 1)) ELSE s

\* String.prototype.trim
Trim(s) == TrimRight(TrimLeft(s))

Digits == {"0","1","2","3","4","5","6","7","8","9"}

DigitVal(c) ==
    CASE c = "0" -> 0 [] c = "1" -> 1 [] c = "2" -> 2 [] c = "3" -> 3
      [] c = "4" -> 4 [] c = "5" -> 5 [] c = "6" -> 6 [] c = "7" -> 7
      [] c = "8" -> 8 [] c = "9" -> 9

RECURSIVE DigitPrefix(_)
DigitPrefix(s) ==
    IF s = <<>> \/ Head(s) \notin Digits THEN <<>>
    ELSE <<Head(s)>> \o DigitPrefix(Tail(s))

RECURSIVE Horner(_, _)
Horner(acc, s) ==
    IF s = <<>> THEN acc ELSE Horner(acc * 10 + DigitVal(Head(s)), Tail(s))

\* parseInt(x, 10): leading white space skipped, an optional sign, then the
\* longest run of digits; <<>> stands for NaN, <<n>> for the number n.
ParseInt(x) ==
    LET s == TrimLeft(x)
        neg == s # <<>> /\ Head(s) = "-"
        body == IF s # <<>> /\ Head(s) \in {"-", "+"} THEN Tail(s) ELSE s
        ds == DigitPrefix(body)
    IN  IF ds = <<>> THEN <<>>
        ELSE <<(IF neg THEN -1 ELSE 1) * Horner(0, ds)>>

\* a JavaScript value used as a condition
Truthy(x) == x # <<>>

\* --------------------------------------------------------------- accounts
AccountIds == 1..MaxUsers
\* an account whose document was removed from the database after its token
\* had been issued (no route removes accounts; the gate provides for it)
GhostId == 0
NoUser == -1

NameAl == <<"A","l">>
EmailA == <<"a","@","x",".","i","o">>
EmailAUpper == <<"A","@","x",".","i","o">>
EmailB == <<"b","@","x",".","i","o">>
Secret == <<"s","e","c","r","e","t">>
Wrong == <<"w","r","o","n","g","1">>
ShortPw == <<"a","b","c">>
PasswordMinLen == 6
NameMinLen == 2

LowerChar(c) == CASE c = "A" -> "a" [] c = "B" -> "b" [] OTHER -> c

\* String.prototype.toLowerCase
\* a conversion that keeps the case
SameCase(s) == s

ToLowerCase(s) == [k \in 1..Len(s) |-> LowerChar(s[k])]

\* bcrypt.hash with a generated salt: one-way, the raw password is not stored
BcryptHash(p) == <<"$2a$12$">> \o p

\* a comparison that accepts every password
ComparePasswordLax(entered, hash) == TRUE

\* bcrypt.compare
ComparePassword(entered, hash) == hash = BcryptHash(entered)

\* ----------------------------------------------------------------- tokens
NoToken == [id |-> NoUser, exp |-> 0, sig |-> "none"]

\* jwt.sign({ id }, JWT_SECRET, { expiresIn })
GenerateToken(id, t) == [id |-> id, exp |-> t + JWT_EXPIRE, sig |-> "secret"]

\* a token signed with another key
Forged(id) == [id |-> id, exp |-> (MaxTicks + 2) * TickHours + JWT_EXPIRE, sig |-> "other"]

\* a token issued one lifetime before the start
Stale(id) == GenerateToken(id, 0 - JWT_EXPIRE)

\* jwt.verify that does not look at the signature
JwtErrorUnsigned(tok, t) ==
    IF t >= tok.exp THEN "TokenExpiredError" ELSE "none"

\* jwt.verify that does not look at the expiry
JwtErrorUnexpiring(tok, t) ==
    IF tok.sig # "secret" THEN "JsonWebTokenError" ELSE "none"

\* jwt.verify: the error it throws; the signature is checked, then the expiry
JwtError(tok, t) ==
    IF tok.sig # "secret" THEN "JsonWebTokenError"
    ELSE IF t >= tok.exp THEN "TokenExpiredError"
    ELSE "none"

NoHeader == [scheme |-> "none", cred |-> NoToken]

\* ------------------------------------------------------------------ state
VARIABLES
    users,      \* users collection: the set of user documents
    held,       \* the token each client holds (localStorage), per account
    now,        \* the clock, in hours
    books,      \* books collection: the set of book documents
    nextId,     \* number of Book documents constructed so far
    changes,    \* number of updates and deletes admitted so far
    logs,       \* activitylogs collection, in insertion order
    reqs,       \* the requests in flight: slot -> position and locals
    resp,       \* the response sent by the last step, NoResp if it sent none
    issued,     \* number of password reset tokens generated so far
    client      \* the AuthProvider of the browser: its state and its requests in flight

vars == <<users, held, now, books, nextId, changes, logs, reqs, resp, issued, client>>

Slots == 1..MaxInFlight

Idle == [pc |-> "idle", user |-> NoUser, gate |-> <<>>, doc |-> <<>>, mods |-> {}, old |-> <<>>,
         body |-> <<>>]

\* the request in slot i is over: the later arrivals move up
Finish(i) ==
    [j \in Slots |-> IF j < i THEN reqs[j]
                     ELSE IF j < MaxInFlight THEN reqs[j + 1] ELSE Idle]

\* a response: status, msg, data and token are sent to the client; op, id,
\* body, gate and err name the request it answers and the error caught
NoResp == [op |-> "none", status |-> 0, msg |-> "none", err |-> "none", gate |-> <<>>,
           id |-> 0, body |-> <<>>, data |-> <<>>, token |-> NoToken]

Response(op, status, msg) ==
    [NoResp EXCEPT !.op = op, !.status = status, !.msg = msg]

\* what the client receives
Wire(r) == [status |-> r.status, msg |-> r.msg, data |-> r.data, token |-> r.token]

\* the session token the server sends to the browser
SessionToken == GenerateToken(1, 0)

\* response.data.user of /auth/register, /auth/login and /auth/me
UserData == [name |-> NameAl, email |-> EmailA, theme |-> "dark"]

Themes == {"dark", "light"}

\* AuthProvider as constructed on a page load with localStorage holding
\* stored: the useState initialisers, axios without a default header, the
\* effect not yet run and no request in flight
AuthProvider(stored) ==
    [user |-> <<>>, token |-> stored, isLoading |-> TRUE, error |-> "none",
     localStorage |-> stored, axios |-> NoToken,
     effect |-> "pending", savedToken |-> NoToken, auth |-> {}, themes |-> <<>>]

Init ==
    /\ users = {}
    /\ held = [a \in AccountIds \cup {GhostId} |->
                 IF a = GhostId THEN GenerateToken(GhostId, 0) ELSE NoToken]
    /\ now = 0
    /\ books = {}
    /\ nextId = 0
    /\ changes = 0
    /\ logs = <<>>
    /\ reqs = [i \in Slots |-> Idle]
    /\ resp = NoResp
    /\ issued = 0
    /\ client = AuthProvider(NoToken)

\* no response is on its way to a client
Quiet == resp = NoResp

\* the response of the last step reaches the client
Deliver ==
    /\ resp # NoResp
    /\ resp' = NoResp
    /\ UNCHANGED <<users, held, now, books, nextId, changes, logs, reqs, issued, client>>

\* the clock advances
Tick ==
    /\ Quiet
    /\ UNCHANGED <<issued, client>>
    /\ now < MaxTicks * TickHours
    /\ now' = now + TickHours
    /\ resp' = NoResp
    /\ UNCHANGED <<users, held, books, nextId, changes, logs, reqs>>

\* ------------------------------------------------------------ credentials
UserIds == {u.id : u \in users}
UserById(id) == CHOOSE u \in users : u.id = id

\* User.findOne({ email }): the documents matching the query
UsersByEmail(e) == {u \in users : u.email = e}

\* userSchema: setters (trim, lowercase) applied by the constructor
NewUser(id, name, email, password) ==
    [id |-> id, name |-> Trim(name), email |-> Trim(ToLowerCase(email)),
     password |-> password, theme |-> "dark",
     resetPasswordToken |-> <<>>, resetPasswordExpire |-> <<>>]

\* userSchema validators (the inputs drawn are well-formed addresses)
ValidateUser(u) ==
    /\ Len(u.name) >= NameMinLen
    /\ u.email # <<>>
    /\ Len(u.password) >= PasswordMinLen

\* no unique index on email
EmailIndexAbsent(u) == TRUE

\* unique index on email
EmailIndexFree(u) == \A v \in users : v.email # u.email

Registering == {i \in Slots : reqs[i].pc = "reg_create"}

RegEmails == {EmailA, EmailAUpper, EmailB}
LoginPasswords == {Secret, Wrong}

\* the request bodies of POST /api/auth/register that are drawn
RegisterBodies ==
    {[name |-> NameAl, email |-> e, password |-> Secret] : e \in RegEmails}
    \cup {[name |-> Missing, email |-> EmailA, password |-> Secret],
          [name |-> NameAl, email |-> EmailB, password |-> ShortPw]}

\* a new request is taken up by the first free slot
FirstIdle(i) == reqs[i].pc = "idle" /\ \A j \in Slots : j < i => reqs[j].pc # "idle"

\* POST /api/auth/register up to User.create: required fields, the lookup by
\* lower-cased email, validation and the pre-save password hash
RegisterFind(i, name, email, password) ==
    /\ Quiet
    /\ UNCHANGED <<issued, client>>
    /\ FirstIdle(i)
    /\ Cardinality(users) + Cardinality(Registering) < MaxUsers
    /\ UNCHANGED <<users, held, now, books, nextId, changes, logs>>
    /\ IF ~Truthy(name) \/ ~Truthy(email) \/ ~Truthy(password)
       THEN /\ resp' = Response("register", 400, "provide_fields")
            /\ UNCHANGED reqs
       ELSE IF UsersByEmail(ToLowerCase(email)) # {}
       THEN /\ resp' = [Response("register", 400, "email_exists") EXCEPT
                          !.body = <<[name |-> name, email |-> email, password |-> password]>>]
            /\ UNCHANGED reqs
       ELSE LET u == NewUser(0, name, ToLowerCase(email), password) IN
            IF ~ValidateUser(u)
            THEN /\ resp' = [Response("register", 400, "validation")
                               EXCEPT !.err = "ValidationError"]
                 /\ UNCHANGED reqs
            ELSE /\ reqs' = [reqs EXCEPT ![i] =
                       [Idle EXCEPT !.pc = "reg_create",
                                    !.doc = <<[u EXCEPT !.password = BcryptHash(password)]>>]]
                 /\ resp' = NoResp

\* the insert of User.create and sendTokenResponse
RegisterCreate(i) ==
    /\ Quiet
    /\ UNCHANGED <<issued, client>>
    /\ reqs[i].pc = "reg_create"
    /\ reqs' = Finish(i)
    /\ UNCHANGED <<now, books, nextId, changes, logs>>
    /\ LET u == [reqs[i].doc[1] EXCEPT !.id = Cardinality(users) + 1] IN
       IF ~EmailIndexFree(u)
       THEN /\ resp' = [Response("register", 500, "failed_create")
                          EXCEPT !.err = "E11000"]
            /\ UNCHANGED <<users, held>>
       ELSE /\ users' = users \cup {u}
            /\ held' = [held EXCEPT ![u.id] = GenerateToken(u.id, now)]
            /\ resp' = [Response("register", 201, "ok")
                          EXCEPT !.id = u.id, !.token = GenerateToken(u.id, now)]

\* POST /api/auth/login
Login(email, password) ==
    /\ Quiet
    /\ UNCHANGED <<issued, client>>
    /\ UNCHANGED <<users, now, books, nextId, changes, logs, reqs>>
    /\ IF ~Truthy(email) \/ ~Truthy(password)
       THEN /\ resp' = Response("login", 400, "provide_fields")
            /\ UNCHANGED held
       ELSE IF UsersByEmail(ToLowerCase(email)) = {}
       THEN /\ resp' = [Response("login", 401, "invalid_credentials") EXCEPT
                          !.body = <<[email |-> email, password |-> password]>>]
            /\ UNCHANGED held
       ELSE LET u == CHOOSE v \in UsersByEmail(ToLowerCase(email)) : TRUE IN
            IF ~ComparePassword(password, u.password)
            THEN /\ resp' = [Response("login", 401, "invalid_credentials") EXCEPT
                               !.body = <<[email |-> email, password |-> password]>>]
                 /\ UNCHANGED held
            ELSE /\ held' = [held EXCEPT ![u.id] = GenerateToken(u.id, now)]
                 /\ resp' = [Response("login", 200, "ok")
                               EXCEPT !.id = u.id, !.token = GenerateToken(u.id, now)]

\* ------------------------------------------------------------------- gate
\* the Authorization headers a client may send
Headers ==
    {NoHeader}
    \cup {[scheme |-> "Bearer", cred |-> held[a]] : a \in DOMAIN held}
    \cup {[scheme |-> "Basic", cred |-> held[1]], [scheme |-> "Bearer", cred |-> Forged(1)],
          [scheme |-> "Bearer", cred |-> Stale(GhostId)]}

\* protect, lines 25-30: the token is taken from a Bearer header only
BearerToken(h) == IF h.scheme = "Bearer" THEN h.cred ELSE NoToken

GateStages == <<"Unauthenticated", "TokenPresent", "TokenValid", "AccountResolved", "Authorized">>

\* protect: the stages the request passes through, in order, and the outcome
Protect(h) ==
    LET token == BearerToken(h)
        s0 == <<"Unauthenticated">>
    IN  IF token = NoToken
        THEN [trace |-> s0, status |-> 401, msg |-> "not_authorized", err |-> "none",
              user |-> NoUser]
        ELSE LET s1 == Append(s0, "TokenPresent") IN
             IF JwtError(token, now) # "none"
             THEN [trace |-> s1, status |-> 401, msg |-> "invalid_or_expired",
                   err |-> JwtError(token, now), user |-> NoUser]
             ELSE LET s2 == Append(s1, "TokenValid") IN
                  IF token.id \notin UserIds
                  THEN [trace |-> s2, status |-> 401, msg |-> "user_not_found", err |-> "none",
                        user |-> NoUser]
                  ELSE [trace |-> s2 \o <<"AccountResolved", "Authorized">>,
                        status |-> 0, msg |-> "next", err |-> "none", user |-> token.id]

\* router.use(protect): a request arrives and passes or fails the gate
\* (its one awaited operation only reads the users collection)
Gate(i, h) ==
    /\ Quiet
    /\ UNCHANGED <<issued, client>>
    /\ FirstIdle(i)
    /\ h \in Headers
    /\ UNCHANGED <<users, held, now, books, nextId, changes, logs>>
    /\ LET g == Protect(h) IN
       IF g.status # 0
       THEN /\ resp' = [Response("gate", g.status, g.msg) EXCEPT !.gate = g.trace, !.err = g.err]
            /\ UNCHANGED reqs
       ELSE /\ reqs' = [reqs EXCEPT ![i] = [Idle EXCEPT !.pc = "Authorized", !.user = g.user,
                                                       !.gate = g.trace]]
            /\ resp' = NoResp

\* protect when User.findById rejects (the storage layer fails): the token
\* was present and verified, and the inner catch answers
GateFault(i, h) ==
    /\ Quiet
    /\ FirstIdle(i)
    /\ h \in Headers
    /\ BearerToken(h) # NoToken
    /\ JwtError(BearerToken(h), now) = "none"
    /\ resp' = [Response("gate", 401, "invalid_or_expired") EXCEPT
                  !.gate = <<"Unauthenticated", "TokenPresent", "TokenValid">>,
                  !.err = "storage"]
    /\ UNCHANGED <<users, held, now, books, nextId, changes, logs, reqs, issued, client>>

\* ------------------------------------------------------------------ books
Dune == <<"D","u","n","e">>
Emma == <<"E","m","m","a">>
Herb == <<"H","e","r","b">>
Year1965 == <<"1","9","6","5">>
Year2027 == <<"2","0","2","7">>
Year2028 == <<"2","0","2","8">>
Year999 == <<"9","9","9">>
YearAbc == <<"a","b","c">>
Year1965x == <<"1","9","6","5","x">>
\* a malformed ObjectId in the path
BadId == 0
BookIdInputs == (1..MaxCreates) \cup {BadId}
\* a client-supplied account identifier in the body (NoUser: none)
ClaimedIds == {NoUser, 1}

BaseBody == [title |-> Dune, author |-> Herb, isbn |-> IsbnA, year |-> Year1965, user |-> NoUser]

\* the request bodies of POST /api/books that are drawn
CreateBodies ==
    {[BaseBody EXCEPT !.isbn = s, !.user = c] :
        s \in {IsbnA, Pad(IsbnA), IsbnB}, c \in ClaimedIds}
    \cup {[BaseBody EXCEPT !.title = t] : t \in {Pad(Dune), Missing, Blank}}
    \cup {[BaseBody EXCEPT !.author = Missing]}
    \cup {[BaseBody EXCEPT !.isbn = s] : s \in {Missing, IsbnShort}}
    \cup {[BaseBody EXCEPT !.year = y] : y \in {Missing, Year999, Year2028, YearAbc, Year1965x}}

NoBody == [title |-> Missing, author |-> Missing, isbn |-> Missing, year |-> Missing, user |-> NoUser]

\* the request bodies of the updates that run concurrently: an edit form
\* sends the fields it shows, changed or not
Year2000 == <<"2","0","0","0">>
RaceBodies ==
    {[NoBody EXCEPT !.title = Emma],
     [NoBody EXCEPT !.title = Dune, !.year = Year2027],
     [NoBody EXCEPT !.year = Year2000]}

\* the request bodies of PUT /api/books/:id that are drawn
UpdateBodies ==
    {[NoBody EXCEPT !.title = Emma, !.user = c] : c \in ClaimedIds}
    \cup {NoBody, [NoBody EXCEPT !.isbn = IsbnB], [NoBody EXCEPT !.year = Year2027],
          [NoBody EXCEPT !.isbn = IsbnB, !.year = Year2027]}
    \cup {[NoBody EXCEPT !.title = Blank]}
    \cup {[NoBody EXCEPT !.isbn = IsbnShort]}
    \cup {[NoBody EXCEPT !.year = Year999]}

BookIds == {b.id : b \in books}

\* a lookup by _id alone
FindBookOfAnyone(id, user) == {b \in books : b.id = id}

\* Book.findOne({ _id: id, user: user })
FindBook(id, user) == {b \in books : b.id = id /\ b.user = user}

\* a lookup that matches no document
FindByIsbnOfNobody(isbn, user) == {}

\* Book.findOne({ isbn: isbn, user: user })
FindByIsbn(isbn, user) == {b \in books : b.isbn = isbn /\ b.user = user}

\* a constructor that takes the owner from the body when the body names one
NewBookOwnedAsSent(id, user, body, t) ==
    [id |-> id, user |-> IF body.user # NoUser THEN body.user ELSE user,
     title |-> Trim(Trim(body.title)), author |-> Trim(Trim(body.author)),
     isbn |-> Trim(Trim(body.isbn)), year |-> ParseInt(body.year), createdAt |-> t]

\* new Book({...}) in the POST handler; the schema setters trim the strings
NewBook(id, user, body, t) ==
    [id |-> id, user |-> user,
     title |-> Trim(Trim(body.title)), author |-> Trim(Trim(body.author)),
     isbn |-> Trim(Trim(body.isbn)), year |-> ParseInt(body.year), createdAt |-> t]

\* validators that only require the fields
ValidateBookPresence(d) ==
    /\ d.user # NoUser
    /\ d.title # <<>>
    /\ d.author # <<>>
    /\ d.isbn # <<>>
    /\ d.year # <<>>

\* bookSchema validators, run by save() before the write
ValidateBook(d) ==
    /\ d.user # NoUser
    /\ d.title # <<>> /\ Len(d.title) >= 1 /\ Len(d.title) <= TitleMaxLen
    /\ d.author # <<>> /\ Len(d.author) >= 1 /\ Len(d.author) <= AuthorMaxLen
    /\ d.isbn # <<>> /\ Len(d.isbn) >= IsbnMinLen /\ Len(d.isbn) <= IsbnMaxLen
    /\ d.year # <<>> /\ d.year[1] >= YearMin /\ d.year[1] <= CurrentYear + 1

\* the key of the unique index bookSchema.index({ isbn: 1 }, { unique: true })
IsbnIndexKey(b) == <<b.isbn>>

\* a collection without the index
IsbnIndexAbsent(d) == TRUE

\* the unique index admits document d
IsbnIndexFree(d) == \A b \in books : b.id # d.id => IsbnIndexKey(b) # IsbnIndexKey(d)

\* a logActivity that files every entry as an ADD
LogEntryAsAdd(user, action, bookTitle, description, details, t) ==
    [user |-> user, action |-> "ADD", bookTitle |-> bookTitle,
     description |-> description, details |-> details, timestamp |-> t]

\* ActivityLog.logActivity: the document that is created
LogEntry(user, action, bookTitle, description, details, t) ==
    [user |-> user, action |-> action, bookTitle |-> bookTitle,
     description |-> description, details |-> details, timestamp |-> t]

\* x is created after y (documents created in the same hour: by _id)
Newer(x, y) == x.createdAt > y.createdAt \/ (x.createdAt = y.createdAt /\ x.id > y.id)

\* .sort({ createdAt: -1 })
RECURSIVE SortByCreatedDesc(_)
SortByCreatedDesc(S) ==
    IF S = {} THEN <<>>
    ELSE LET top == CHOOSE x \in S : \A y \in S \ {x} : Newer(x, y)
         IN  <<top>> \o SortByCreatedDesc(S \ {top})

\* GET /api/books
ListBooks(i) ==
    /\ Quiet
    /\ UNCHANGED <<issued, client>>
    /\ reqs[i].pc = "Authorized"
    /\ reqs' = Finish(i)
    /\ resp' = [Response("list", 200, "ok") EXCEPT
                  !.data = SortByCreatedDesc({b \in books : b.user = reqs[i].user})]
    /\ UNCHANGED <<users, held, now, books, nextId, changes, logs>>

\* GET /api/books/:id
GetBook(i, id) ==
    /\ Quiet
    /\ UNCHANGED <<issued, client>>
    /\ reqs[i].pc = "Authorized"
    /\ reqs' = Finish(i)
    /\ UNCHANGED <<users, held, now, books, nextId, changes, logs>>
    /\ IF id = BadId
       THEN resp' = [Response("get", 400, "invalid_id") EXCEPT !.id = id, !.err = "CastError"]
       ELSE IF FindBook(id, reqs[i].user) = {}
       THEN resp' = [Response("get", 404, "not_found") EXCEPT !.id = id]
       ELSE resp' = [Response("get", 200, "ok") EXCEPT
                       !.id = id, !.data = <<CHOOSE b \in FindBook(id, reqs[i].user) : TRUE>>]

\* POST /api/books up to newBook.save(): required fields, the per-user ISBN
\* lookup, the construction of the document and its validation
PostFind(i, body) ==
    /\ Quiet
    /\ UNCHANGED <<issued, client>>
    /\ reqs[i].pc = "Authorized"
    /\ nextId < MaxCreates
    /\ UNCHANGED <<users, held, now, books, changes, logs>>
    /\ IF ~Truthy(body.title) \/ ~Truthy(body.author) \/ ~Truthy(body.isbn) \/ ~Truthy(body.year)
       THEN /\ resp' = Response("post", 400, "fields_required")
            /\ reqs' = Finish(i)
            /\ UNCHANGED nextId
       ELSE IF FindByIsbn(Trim(body.isbn), reqs[i].user) # {}
       THEN /\ resp' = Response("post", 400, "isbn_exists_in_library")
            /\ reqs' = Finish(i)
            /\ UNCHANGED nextId
       ELSE LET newBook == NewBook(nextId + 1, reqs[i].user, body, now) IN
            IF ~ValidateBook(newBook)
            THEN /\ resp' = [Response("post", 400, "validation") EXCEPT !.err = "ValidationError"]
                 /\ reqs' = Finish(i)
                 /\ UNCHANGED nextId
            ELSE /\ reqs' = [reqs EXCEPT ![i].pc = "post_save", ![i].doc = <<newBook>>]
                 /\ nextId' = nextId + 1
                 /\ resp' = NoResp

\* the insert of newBook.save(), under the unique index
PostSave(i) ==
    /\ Quiet
    /\ UNCHANGED <<issued, client>>
    /\ reqs[i].pc = "post_save"
    /\ UNCHANGED <<users, held, now, nextId, changes, logs>>
    /\ LET newBook == reqs[i].doc[1] IN
       IF ~IsbnIndexFree(newBook)
       THEN /\ resp' = [Response("post", 400, "isbn_exists") EXCEPT !.err = "E11000"]
            /\ reqs' = Finish(i)
            /\ UNCHANGED books
       ELSE /\ books' = books \cup {newBook}
            /\ reqs' = [reqs EXCEPT ![i].pc = "post_log"]
            /\ resp' = NoResp

\* newBook.save() rejects (the storage layer fails): the catch answers
PostSaveFault(i) ==
    /\ Quiet
    /\ reqs[i].pc = "post_save"
    /\ reqs' = Finish(i)
    /\ resp' = [Response("post", 500, "failed_add") EXCEPT
                  !.id = reqs[i].doc[1].id, !.err = "storage"]
    /\ UNCHANGED <<users, held, now, books, nextId, changes, logs, issued, client>>

\* ActivityLog.logActivity(..., 'ADD', ...) and the 201 response; ok is
\* whether the storage layer performs the write
PostLog(i, ok) ==
    /\ Quiet
    /\ UNCHANGED <<issued, client>>
    /\ reqs[i].pc = "post_log"
    /\ reqs' = Finish(i)
    /\ UNCHANGED <<users, held, now, books, nextId, changes>>
    /\ LET savedBook == reqs[i].doc[1] IN
       IF ~ok
       THEN /\ resp' = [Response("post", 500, "failed_add") EXCEPT
                          !.id = savedBook.id, !.err = "storage"]
            /\ UNCHANGED logs
       ELSE /\ logs' = Append(logs, LogEntry(reqs[i].user, "ADD", savedBook.title,
                           <<"Added", savedBook.title, savedBook.author>>,
                           [bookId |-> savedBook.id, author |-> savedBook.author,
                            isbn |-> savedBook.isbn, year |-> savedBook.year], now))
            /\ resp' = [Response("post", 201, "ok") EXCEPT
                          !.id = savedBook.id, !.data = <<savedBook>>]

\* assignments that fall back to the current year when no year is sent
AssignDefaultingYear(book, body) ==
    [book EXCEPT
       !.title = IF Truthy(body.title) THEN Trim(Trim(body.title)) ELSE @,
       !.author = IF Truthy(body.author) THEN Trim(Trim(body.author)) ELSE @,
       !.isbn = IF Truthy(body.isbn) THEN Trim(Trim(body.isbn)) ELSE @,
       !.year = IF Truthy(body.year) THEN ParseInt(body.year) ELSE <<CurrentYear>>]

\* the assignments of the PUT handler, lines 402-405
Assign(book, body) ==
    [book EXCEPT
       !.title = IF Truthy(body.title) THEN Trim(Trim(body.title)) ELSE @,
       !.author = IF Truthy(body.author) THEN Trim(Trim(body.author)) ELSE @,
       !.isbn = IF Truthy(body.isbn) THEN Trim(Trim(body.isbn)) ELSE @,
       !.year = IF Truthy(body.year) THEN ParseInt(body.year) ELSE @]

BookFields == {"title", "author", "isbn", "year"}

\* the paths mongoose marks modified: assigned a value that differs
ModifiedPaths(book, doc) == {f \in BookFields : doc[f] # book[f]}

\* updateOne({ _id }, { $set: modified paths })
SetPaths(stored, doc, mods) ==
    [f \in DOMAIN stored |-> IF f \in mods THEN doc[f] ELSE stored[f]]

\* PUT /api/books/:id up to book.save(), for the request r: the lookup by id
\* and owner, the assignments and the validation.  The outcome is the
\* response sent, if any, and the locals the request goes on with.
PutLookup(r, id, body) ==
    IF id = BadId
    THEN [resp |-> [Response("put", 400, "invalid_id") EXCEPT
                      !.id = id, !.body = <<body>>, !.err = "CastError"],
          slot |-> Idle]
    ELSE IF FindBook(id, r.user) = {}
    THEN [resp |-> [Response("put", 404, "not_found") EXCEPT !.id = id, !.body = <<body>>],
          slot |-> Idle]
    ELSE LET book == CHOOSE b \in FindBook(id, r.user) : TRUE
             doc == Assign(book, body)
         IN  IF ~ValidateBook(doc)
             THEN [resp |-> [Response("put", 500, "failed_update") EXCEPT
                               !.id = id, !.body = <<body>>, !.err = "ValidationError"],
                   slot |-> Idle]
             ELSE [resp |-> NoResp,
                   slot |-> [r EXCEPT !.pc = "put_save", !.doc = <<doc>>,
                                      !.mods = ModifiedPaths(book, doc),
                                      !.old = book.title, !.body = <<body>>]]

PutFind(i, id, body) ==
    /\ Quiet
    /\ UNCHANGED <<issued, client>>
    /\ reqs[i].pc = "Authorized"
    /\ UNCHANGED <<users, held, now, books, nextId, logs>>
    /\ LET o == PutLookup(reqs[i], id, body) IN
       /\ resp' = o.resp
       /\ reqs' = IF o.slot = Idle THEN Finish(i) ELSE [reqs EXCEPT ![i] = o.slot]
       /\ changes' = IF o.slot = Idle THEN changes ELSE changes + 1

\* the write of book.save() on a loaded document
PutSave(i) ==
    /\ Quiet
    /\ UNCHANGED <<issued, client>>
    /\ reqs[i].pc = "put_save"
    /\ UNCHANGED <<users, held, now, nextId, changes, logs>>
    /\ LET doc == reqs[i].doc[1]
           mods == reqs[i].mods
           target == {b \in books : b.id = doc.id}
       IN  IF mods = {}
           THEN /\ reqs' = [reqs EXCEPT ![i].pc = "put_log"]
                /\ resp' = NoResp
                /\ UNCHANGED books
           ELSE IF target = {}
           THEN /\ resp' = [Response("put", 500, "failed_update") EXCEPT
                              !.id = doc.id, !.body = reqs[i].body, !.err = "DocumentNotFoundError"]
                /\ reqs' = Finish(i)
                /\ UNCHANGED books
           ELSE LET stored == CHOOSE b \in target : TRUE
                    written == SetPaths(stored, doc, mods)
                IN  IF ~IsbnIndexFree(written)
                    THEN /\ resp' = [Response("put", 500, "failed_update") EXCEPT
                                       !.id = doc.id, !.body = reqs[i].body, !.err = "E11000"]
                         /\ reqs' = Finish(i)
                         /\ UNCHANGED books
                    ELSE /\ books' = (books \ {stored}) \cup {written}
                         /\ reqs' = [reqs EXCEPT ![i].pc = "put_log"]
                         /\ resp' = NoResp

\* book.save() rejects (the storage layer fails): the catch answers
PutSaveFault(i) ==
    /\ Quiet
    /\ reqs[i].pc = "put_save"
    /\ reqs' = Finish(i)
    /\ resp' = [Response("put", 500, "failed_update") EXCEPT
                  !.id = reqs[i].doc[1].id, !.body = reqs[i].body, !.err = "storage"]
    /\ UNCHANGED <<users, held, now, books, nextId, changes, logs, issued, client>>

\* the entry the PUT handler of request r logs: changes is req.body as sent
EditEntry(r, t) ==
    LogEntry(r.user, "EDIT", r.doc[1].title, <<"Updated", r.old>>,
             [bookId |-> r.doc[1].id, changes |-> r.body[1]], t)

\* ActivityLog.logActivity(..., 'EDIT', ...) and the 200 response
PutLog(i, ok) ==
    /\ Quiet
    /\ UNCHANGED <<issued, client>>
    /\ reqs[i].pc = "put_log"
    /\ reqs' = Finish(i)
    /\ UNCHANGED <<users, held, now, books, nextId, changes>>
    /\ LET updatedBook == reqs[i].doc[1] IN
       IF ~ok
       THEN /\ resp' = [Response("put", 500, "failed_update") EXCEPT
                          !.id = updatedBook.id, !.body = reqs[i].body, !.err = "storage"]
            /\ UNCHANGED logs
       ELSE /\ logs' = Append(logs, EditEntry(reqs[i], now))
            /\ resp' = [Response("put", 200, "ok") EXCEPT
                          !.id = updatedBook.id, !.body = reqs[i].body, !.data = <<updatedBook>>]

\* a findOneAndDelete that finds the document and leaves it stored
DeleteNone(b) == books

\* findOneAndDelete: the document found is removed in the same operation
DeleteOne(b) == books \ {b}

\* DELETE /api/books/:id: Book.findOneAndDelete({ _id, user })
DeleteFind(i, id) ==
    /\ Quiet
    /\ UNCHANGED <<issued, client>>
    /\ reqs[i].pc = "Authorized"
    /\ UNCHANGED <<users, held, now, nextId, logs>>
    /\ IF id = BadId
       THEN /\ resp' = [Response("delete", 400, "invalid_id") EXCEPT !.id = id, !.err = "CastError"]
            /\ reqs' = Finish(i)
            /\ UNCHANGED <<books, changes>>
       ELSE IF FindBook(id, reqs[i].user) = {}
       THEN /\ resp' = [Response("delete", 404, "not_found") EXCEPT !.id = id]
            /\ reqs' = Finish(i)
            /\ UNCHANGED <<books, changes>>
       ELSE LET deletedBook == CHOOSE b \in FindBook(id, reqs[i].user) : TRUE IN
            /\ books' = DeleteOne(deletedBook)
            /\ reqs' = [reqs EXCEPT ![i].pc = "delete_log", ![i].doc = <<deletedBook>>]
            /\ changes' = changes + 1
            /\ resp' = NoResp

\* ActivityLog.logActivity(..., 'DELETE', ...) and the 200 response
DeleteLog(i, ok) ==
    /\ Quiet
    /\ UNCHANGED <<issued, client>>
    /\ reqs[i].pc = "delete_log"
    /\ reqs' = Finish(i)
    /\ UNCHANGED <<users, held, now, books, nextId, changes>>
    /\ LET deletedBook == reqs[i].doc[1] IN
       IF ~ok
       THEN /\ resp' = [Response("delete", 500, "failed_delete") EXCEPT
                          !.id = deletedBook.id, !.err = "storage"]
            /\ UNCHANGED logs
       ELSE /\ logs' = Append(logs, LogEntry(reqs[i].user, "DELETE", deletedBook.title,
                           <<"Removed", deletedBook.title, deletedBook.author>>,
                           [author |-> deletedBook.author, isbn |-> deletedBook.isbn,
                            year |-> deletedBook.year], now))
            /\ resp' = [Response("delete", 200, "ok") EXCEPT
                          !.id = deletedBook.id, !.data = <<deletedBook>>]

\* ------------------------------------------------------------------- logs
LimitInputs == {Missing, <<"1">>, <<"0">>}

\* parseInt(req.query.limit) || 50
LimitOf(q) == IF ParseInt(q) = <<>> \/ ParseInt(q)[1] = 0 THEN DefaultLimit ELSE ParseInt(q)[1]

\* position p of the log is listed before position q by sort({ timestamp: -1 })
\* (entries written in the same hour: the later insertion first)
LogBefore(p, q) ==
    logs[p].timestamp > logs[q].timestamp \/ (logs[p].timestamp = logs[q].timestamp /\ p > q)

RECURSIVE SortByTimestampDesc(_)
SortByTimestampDesc(P) ==
    IF P = {} THEN <<>>
    ELSE LET top == CHOOSE p \in P : \A q \in P \ {p} : LogBefore(p, q)
         IN  <<logs[top]>> \o SortByTimestampDesc(P \ {top})

\* ActivityLog.getUserHistory(userId, limit)
GetUserHistory(userId, limit) ==
    LET sorted == SortByTimestampDesc({p \in 1..Len(logs) : logs[p].user = userId})
    IN  SubSeq(sorted, 1, IF Len(sorted) < limit THEN Len(sorted) ELSE limit)

\* GET /api/logs
History(i, q) ==
    /\ Quiet
    /\ UNCHANGED <<issued, client>>
    /\ reqs[i].pc = "Authorized"
    /\ reqs' = Finish(i)
    /\ resp' = [Response("history", 200, "ok") EXCEPT
                  !.data = GetUserHistory(reqs[i].user, LimitOf(q))]
    /\ UNCHANGED <<users, held, now, books, nextId, changes, logs>>

\* a deleteMany with an empty filter
DeleteManyLogsOfAll(userId) == <<>>

\* ActivityLog.deleteMany({ user }): the collection that is left
DeleteManyLogs(userId) == SelectSeq(logs, LAMBDA e : e.user # userId)

\* DELETE /api/logs: ActivityLog.deleteMany({ user })
ClearLogs(i) ==
    /\ Quiet
    /\ UNCHANGED <<issued, client>>
    /\ reqs[i].pc = "Authorized"
    /\ reqs' = Finish(i)
    /\ logs' = DeleteManyLogs(reqs[i].user)
    /\ resp' = [Response("clear", 200, "ok") EXCEPT !.id = reqs[i].user]
    /\ UNCHANGED <<users, held, now, books, nextId, changes>>

\* GET /api/auth/me
Me(i) ==
    /\ Quiet
    /\ UNCHANGED <<issued, client>>
    /\ reqs[i].pc = "Authorized"
    /\ reqs' = Finish(i)
    /\ resp' = [Response("me", 200, "ok") EXCEPT
                  !.id = reqs[i].user,
                  !.data = <<[id |-> reqs[i].user, name |-> UserById(reqs[i].user).name,
                              email |-> UserById(reqs[i].user).email,
                              theme |-> UserById(reqs[i].user).theme]>>]
    /\ UNCHANGED <<users, held, now, books, nextId, changes, logs>>

\* --------------------------------------------------------- password reset
\* crypto.createHash('sha256').update(token).digest('hex'): one-way
Sha256(k) == [sha256 |-> k]

\* the raw tokens a client may present: those generated so far, and 0, a
\* token that was never generated
ResetTokens == 0..MaxResets

Fresh == <<"n","e","w","p","w","1">>
Other == <<"o","t","h","e","r","2">>
ResetPasswords == {Missing, ShortPw, Fresh, Other}

\* a lookup by the hash alone, whatever the expiry
FindByResetTokenAnytime(hash, t) == {u \in users : u.resetPasswordToken = <<hash>>}

\* User.findOne({ resetPasswordToken, resetPasswordExpire: { $gt: Date.now() } })
FindByResetToken(hash, t) ==
    {u \in users : /\ u.resetPasswordToken = <<hash>>
                   /\ u.resetPasswordExpire # <<>>
                   /\ u.resetPasswordExpire[1] > t}

\* the update of user.save(): the modified paths of the document with that _id
SetUser(id, paths) ==
    {IF u.id = id
     THEN [f \in DOMAIN u |-> IF f \in DOMAIN paths THEN paths[f] ELSE u[f]]
     ELSE u : u \in users}

\* POST /api/auth/forgot-password up to user.save(): the lookup by lower-cased
\* email, the generation of the token and of its expiry
ForgotFind(i, email) ==
    /\ Quiet
    /\ FirstIdle(i)
    /\ issued < MaxResets
    /\ UNCHANGED <<users, held, now, books, nextId, changes, logs>>
    /\ IF ~Truthy(email)
       THEN /\ resp' = Response("forgot", 400, "provide_email")
            /\ UNCHANGED <<reqs, issued, client>>
       ELSE IF UsersByEmail(ToLowerCase(email)) = {}
       THEN /\ resp' = Response("forgot", 404, "no_account")
            /\ UNCHANGED <<reqs, issued, client>>
       ELSE LET user == CHOOSE u \in UsersByEmail(ToLowerCase(email)) : TRUE IN
            /\ issued' = issued + 1
            /\ UNCHANGED client
            /\ reqs' = [reqs EXCEPT ![i] =
                  [Idle EXCEPT !.pc = "forgot_save", !.user = user.id,
                               !.body = <<[token |-> issued + 1]>>,
                               !.doc = <<[resetPasswordToken |-> <<Sha256(issued + 1)>>,
                                          resetPasswordExpire |-> <<now + ResetHours>>]>>]]
            /\ resp' = NoResp

\* user.save() of forgot-password and the mail with the raw token; sent tells
\* whether transporter.sendMail succeeded
ForgotSave(i, sent) ==
    /\ Quiet
    /\ reqs[i].pc = "forgot_save"
    /\ reqs' = Finish(i)
    /\ users' = SetUser(reqs[i].user, reqs[i].doc[1])
    /\ resp' = IF sent
               THEN [Response("forgot", 200, "link_sent") EXCEPT
                       !.id = reqs[i].user, !.body = reqs[i].body]
               ELSE [Response("forgot", 500, "failed_send") EXCEPT
                       !.id = reqs[i].user, !.body = reqs[i].body]
    /\ UNCHANGED <<held, now, books, nextId, changes, logs, issued, client>>

\* POST /api/auth/reset-password/:token up to user.save(): the checks of the
\* password and the lookup by the hash of the token and a later expiry
ResetFind(i, token, password) ==
    /\ Quiet
    /\ FirstIdle(i)
    /\ UNCHANGED <<users, held, now, books, nextId, changes, logs, issued, client>>
    /\ LET body == [token |-> token, password |-> password] IN
       IF ~Truthy(password)
       THEN /\ resp' = [Response("reset", 400, "provide_password") EXCEPT !.body = <<body>>]
            /\ UNCHANGED reqs
       ELSE IF Len(password) < PasswordMinLen
       THEN /\ resp' = [Response("reset", 400, "password_short") EXCEPT !.body = <<body>>]
            /\ UNCHANGED reqs
       ELSE IF FindByResetToken(Sha256(token), now) = {}
       THEN /\ resp' = [Response("reset", 400, "invalid_or_expired") EXCEPT !.body = <<body>>]
            /\ UNCHANGED reqs
       ELSE LET user == CHOOSE u \in FindByResetToken(Sha256(token), now) : TRUE IN
            /\ reqs' = [reqs EXCEPT ![i] =
                  [Idle EXCEPT !.pc = "reset_save", !.user = user.id, !.body = <<body>>,
                               !.doc = <<[password |-> BcryptHash(password),
                                          resetPasswordToken |-> <<>>,
                                          resetPasswordExpire |-> <<>>]>>]]
            /\ resp' = NoResp

\* user.save() of reset-password: the new password hash is set and the reset
\* fields are unset on the document with that _id
ResetSave(i) ==
    /\ Quiet
    /\ reqs[i].pc = "reset_save"
    /\ reqs' = Finish(i)
    /\ users' = SetUser(reqs[i].user, reqs[i].doc[1])
    /\ resp' = [Response("reset", 200, "reset_ok") EXCEPT
                  !.id = reqs[i].user, !.body = reqs[i].body]
    /\ UNCHANGED <<held, now, books, nextId, changes, logs, issued, client>>

\* the clock advances by one hour
Hour ==
    /\ Quiet
    /\ now < MaxHours
    /\ now' = now + 1
    /\ resp' = NoResp
    /\ UNCHANGED <<users, held, books, nextId, changes, logs, reqs, issued, client>>

\* ----------------------------------------------------------------- client
\* the page is loaded again: the provider is constructed anew and the
\* callbacks of the requests of the page before are gone
Reload ==
    /\ client' = AuthProvider(client.localStorage)
    /\ UNCHANGED <<users, held, now, books, nextId, changes, logs, reqs, resp, issued>>

\* loadUser up to its await: without a saved token it only ends the loading
loadUser ==
    /\ client.effect = "pending"
    /\ client' = IF client.localStorage # NoToken
                 THEN [client EXCEPT !.axios = client.localStorage,
                                     !.savedToken = client.localStorage,
                                     !.effect = "awaiting"]
                 ELSE [client EXCEPT !.isLoading = FALSE, !.effect = "done"]
    /\ UNCHANGED <<users, held, now, books, nextId, changes, logs, reqs, resp, issued>>

\* loadUser after its await: /auth/me answered (ok) or failed
loadUserDone(ok) ==
    /\ client.effect = "awaiting"
    /\ client' = IF ok
                 THEN [client EXCEPT !.user = <<UserData>>, !.token = client.savedToken,
                                     !.isLoading = FALSE, !.effect = "done"]
                 ELSE [client EXCEPT !.localStorage = NoToken, !.token = NoToken,
                                     !.user = <<>>, !.axios = NoToken,
                                     !.isLoading = FALSE, !.effect = "done"]
    /\ UNCHANGED <<users, held, now, books, nextId, changes, logs, reqs, resp, issued>>

\* signup and login up to their await (kind tells which)
login(kind) ==
    /\ kind \notin client.auth
    /\ client' = [client EXCEPT !.error = "none", !.auth = @ \cup {kind}]
    /\ UNCHANGED <<users, held, now, books, nextId, changes, logs, reqs, resp, issued>>

\* signup and login after their await: answered with token and user (ok) or
\* failed
loginDone(kind, ok) ==
    /\ kind \in client.auth
    /\ client' = IF ok
                 THEN [client EXCEPT !.localStorage = SessionToken, !.token = SessionToken,
                                     !.user = <<UserData>>, !.axios = SessionToken,
                                     !.auth = @ \ {kind}]
                 ELSE [client EXCEPT !.error = "failed", !.auth = @ \ {kind}]
    /\ UNCHANGED <<users, held, now, books, nextId, changes, logs, reqs, resp, issued>>

logout ==
    /\ client' = [client EXCEPT !.localStorage = NoToken, !.token = NoToken,
                                !.user = <<>>, !.axios = NoToken]
    /\ UNCHANGED <<users, held, now, books, nextId, changes, logs, reqs, resp, issued>>

\* updateTheme up to its await: it returns at once without a token
updateTheme(theme) ==
    /\ Len(client.themes) < MaxInFlight
    /\ client' = IF client.token = NoToken THEN client
                 ELSE [client EXCEPT !.themes = Append(@, theme)]
    /\ UNCHANGED <<users, held, now, books, nextId, changes, logs, reqs, resp, issued>>

\* { ...prev, theme }: the spread of null has no properties
SpreadTheme(prev, theme) ==
    IF prev = <<>> THEN <<[theme |-> theme]>> ELSE <<[prev[1] EXCEPT !.theme = theme]>>

\* updateTheme after its await, for the k-th request in flight: answered
\* (ok) or failed
updateThemeDone(k, ok) ==
    /\ k \in 1..Len(client.themes)
    /\ LET rest == [j \in 1..(Len(client.themes) - 1) |->
                      IF j < k THEN client.themes[j] ELSE client.themes[j + 1]]
       IN  client' = IF ok
                     THEN [client EXCEPT !.user = SpreadTheme(@, client.themes[k]),
                                         !.themes = rest]
                     ELSE [client EXCEPT !.themes = rest]
    /\ UNCHANGED <<users, held, now, books, nextId, changes, logs, reqs, resp, issued>>

\* ------------------------------------------------------------- edit modal
\* EditBookModal: the form populated from the book shown; a book sent by
\* the server has no publishedYear
FormData(book) ==
    [title |-> book.title, author |-> book.author, isbn |-> book.isbn, publishedYear |-> <<>>]

\* handleChange: the input named name takes the value typed
handleChange(formData, name, value) == [formData EXCEPT ![name] = value]

\* what the user may type into the form
EditInputs ==
    {[name |-> "publishedYear", value |-> Year2000],
     [name |-> "publishedYear", value |-> Year2027],
     [name |-> "title", value |-> Emma]}

\* req.body of the PUT as the handler destructures it: the form has no key
\* year (and none for the account), so these are undefined
RequestBody(formData) ==
    [title |-> formData.title, author |-> formData.author, isbn |-> formData.isbn,
     publishedYear |-> formData.publishedYear, year |-> Missing, user |-> NoUser]

\* handleSubmit and handleSaveEdit: the form, with one input changed, is
\* sent as the body of PUT /api/books/:id
handleSaveEdit(i, book, input) ==
    PutFind(i, book.id, RequestBody(handleChange(FormData(book), input.name, input.value)))

\* ------------------------------------------------------------ specification
\* accounts are registered and requests pass the gate
Arrivals ==
    \/ \E i \in Slots : \E b \in RegisterBodies : RegisterFind(i, b.name, b.email, b.password)
    \/ \E i \in Slots : RegisterCreate(i)
    \/ \E i \in Slots : \E h \in Headers : Gate(i, h)
    \/ Deliver

\* the book store and the activity log, within one hour of the clock
Next ==
    \/ Arrivals
    \/ \E i \in Slots : ListBooks(i)
    \/ \E i \in Slots : \E id \in BookIdInputs : GetBook(i, id)
    \/ \E i \in Slots : \E body \in CreateBodies : PostFind(i, body)
    \/ \E i \in Slots : PostSave(i)
    \/ \E i \in Slots : \E ok \in BOOLEAN : PostLog(i, ok)
    \/ \E i \in Slots : \E id \in BookIdInputs : \E body \in UpdateBodies :
          changes < MaxChanges /\ PutFind(i, id, body)
    \/ \E i \in Slots : PutSave(i)
    \/ \E i \in Slots : \E ok \in BOOLEAN : PutLog(i, ok)
    \/ \E i \in Slots : \E id \in BookIdInputs : changes < MaxChanges /\ DeleteFind(i, id)
    \/ \E i \in Slots : \E ok \in BOOLEAN : DeleteLog(i, ok)
    \/ \E i \in Slots : \E q \in LimitInputs : History(i, q)
    \/ \E i \in Slots : ClearLogs(i)

Spec == Init /\ [][Next]_vars

\* sessions: logins, the clock and the expiry of tokens
NextSession ==
    \/ Arrivals
    \/ Tick
    \/ \E e \in RegEmails \cup {Missing}, p \in LoginPasswords : Login(e, p)
    \/ \E i \in Slots : Me(i)

SpecSession == Init /\ [][NextSession]_vars

\* password resets: registrations, reset requests and the clock in hours
NextReset ==
    \/ \E i \in Slots : \E b \in RegisterBodies : RegisterFind(i, b.name, b.email, b.password)
    \/ \E i \in Slots : RegisterCreate(i)
    \/ Deliver
    \/ Hour
    \/ \E i \in Slots : \E e \in RegEmails \cup {Missing} : ForgotFind(i, e)
    \/ \E i \in Slots : \E sent \in BOOLEAN : ForgotSave(i, sent)
    \/ \E i \in Slots : \E k \in ResetTokens : \E p \in ResetPasswords : ResetFind(i, k, p)
    \/ \E i \in Slots : ResetSave(i)

SpecReset == Init /\ [][NextReset]_vars

\* races: one account, one book, and updates and deletes of it in flight
\* together
NextRace ==
    \/ \E i \in Slots : RegisterFind(i, NameAl, EmailA, Secret)
    \/ \E i \in Slots : RegisterCreate(i)
    \/ \E i \in Slots : Gate(i, [scheme |-> "Bearer", cred |-> held[1]])
    \/ Deliver
    \/ \E i \in Slots : nextId < 1 /\ PostFind(i, BaseBody)
    \/ \E i \in Slots : PostSave(i)
    \/ \E i \in Slots : PostLog(i, TRUE)
    \/ \E i \in Slots : \E body \in RaceBodies : changes < MaxRaces /\ PutFind(i, 1, body)
    \/ \E i \in Slots : PutSave(i)
    \/ \E i \in Slots : PutLog(i, TRUE)
    \/ \E i \in Slots : changes < MaxRaces /\ DeleteFind(i, 1)
    \/ \E i \in Slots : DeleteLog(i, TRUE)

SpecRace == Init /\ [][NextRace]_vars

\* the browser: page loads, logins, logouts and theme updates, with a
\* server that answers or fails
NextClient ==
    \/ Reload
    \/ loadUser
    \/ \E ok \in BOOLEAN : loadUserDone(ok)
    \/ \E kind \in {"signup", "login"} : login(kind)
    \/ \E kind \in {"signup", "login"} : \E ok \in BOOLEAN : loginDone(kind, ok)
    \/ logout
    \/ \E theme \in Themes : updateTheme(theme)
    \/ \E k \in 1..MaxInFlight : \E ok \in BOOLEAN : updateThemeDone(k, ok)

SpecClient == Init /\ [][NextClient]_vars

\* the edit modal: one account creates a book and edits it through the form
NextEdit ==
    \/ \E i \in Slots : RegisterFind(i, NameAl, EmailA, Secret)
    \/ \E i \in Slots : RegisterCreate(i)
    \/ \E i \in Slots : Gate(i, [scheme |-> "Bearer", cred |-> held[1]])
    \/ Deliver
    \/ \E i \in Slots : nextId < 1 /\ PostFind(i, BaseBody)
    \/ \E i \in Slots : PostSave(i)
    \/ \E i \in Slots : PostLog(i, TRUE)
    \/ \E i \in Slots : \E book \in books : \E input \in EditInputs :
          changes < MaxRaces /\ handleSaveEdit(i, book, input)
    \/ \E i \in Slots : PutSave(i)
    \/ \E i \in Slots : PutLog(i, TRUE)

SpecEdit == Init /\ [][NextEdit]_vars

\* faults: the same requests, with a storage layer that may fail during the
\* gate's account lookup and during a book save
NextFault ==
    \/ NextRace
    \/ \E i \in Slots : GateFault(i, [scheme |-> "Bearer", cred |-> held[1]])
    \/ \E i \in Slots : PostSaveFault(i)
    \/ \E i \in Slots : PutSaveFault(i)

SpecFault == Init /\ [][NextFault]_vars

\* ----------------------------------------------------------------- claims
\* the book documents with _id id that belong to another account than user
ForeignBooks(id, user) == {R \in books : R.id = id /\ R.user # user}

\* C1: when account B issues a get, an update or a delete with the id of a
\* book R created by another account A, the request is answered 404 in that
\* very step (whatever the update's body holds), the books collection and R
\* are unchanged and no activity log entry is written.
C1_ForeignBookNotFound ==
    [][\A i \in Slots : \A id \in BookIdInputs :
         (/\ reqs[i].pc = "Authorized"
          /\ ForeignBooks(id, reqs[i].user) # {}
          /\ \/ GetBook(i, id)
             \/ \E body \in UpdateBodies : PutFind(i, id, body)
             \/ DeleteFind(i, id))
         => (/\ resp'.status = 404
             /\ resp'.id = id
             /\ reqs' = Finish(i)
             /\ books' = books
             /\ logs' = logs)]_vars

\* C1 witness: an update with a too short ISBN, sent with the id of a book
\* of another account, has been answered 404
C1_Witness ==
    /\ resp.op = "put"
    /\ resp.status = 404
    /\ resp.body = <<[NoBody EXCEPT !.isbn = IsbnShort]>>
    /\ resp.id \in BookIds

\* the same body carrying the account identifier c
Claim(body, c) == [body EXCEPT !.user = c]

\* the locals of the same request, had its body carried the identifier c
WithClaim(r, c) == [r EXCEPT !.body = IF @ = <<>> THEN @ ELSE <<Claim(@[1], c)>>]

\* the step is a step of the handler serving the request in slot i
HandlerStep(i) ==
    /\ reqs[i].pc \notin {"idle", "reg_create"}
    /\ \/ reqs' = Finish(i)
       \/ reqs'[i] # reqs[i] /\ \A j \in Slots \ {i} : reqs'[j] = reqs[j]

\* the step reads and writes only documents of account u: the books and log
\* entries it adds, changes or removes and the documents it returns
ScopedTo(u) ==
    /\ \A b \in (books' \ books) \cup (books \ books') : b.user = u
    /\ SelectSeq(logs', LAMBDA e : e.user # u) = SelectSeq(logs, LAMBDA e : e.user # u)
    /\ \A k \in 1..Len(resp'.data) : resp'.data[k].user = u

\* the update's first step agrees with the one the same request takes when
\* its body carries the identifier c: the same response, the same locals
SameLookup(i, id, body, c) ==
    LET o == PutLookup(reqs[i], id, Claim(body, c)) IN
    /\ Wire(resp') = Wire(o.resp)
    /\ IF o.slot = Idle THEN reqs' = Finish(i) ELSE WithClaim(reqs'[i], c) = o.slot

\* a log entry without what an EDIT entry records of the request body
SansChanges(e) ==
    IF e.action = "EDIT" THEN [e EXCEPT !.details = [bookId |-> e.details.bookId]] ELSE e

\* the step is the first step of a create (of an update) by the request in
\* slot i: it answers the request or takes it past the lookup
CreateStarts(i) ==
    reqs[i].pc = "Authorized" /\ (resp'.op = "post" \/ nextId' # nextId)

UpdateStarts(i) ==
    reqs[i].pc = "Authorized" /\ (resp'.op = "put" \/ changes' # changes)

Rejected(msg, trace) ==
    /\ resp'.status = 401
    /\ resp'.msg = msg
    /\ resp'.gate = trace
    /\ reqs' = reqs
    /\ users' = users /\ books' = books /\ logs' = logs

\* C3: a handler step is only taken for a request that went through
\* Unauthenticated, TokenPresent, TokenValid, AccountResolved and Authorized
\* in that order; a request without a bearer token is rejected 401 'not
\* authorized', one with a token that is forged or expired 401 'invalid or
\* expired', one whose token is valid but whose account is gone 401 'user
\* not found'; a rejected request reaches no handler and changes no
\* account, book or log.
C3_GateBeforeHandler ==
    [][/\ \A i \in Slots : HandlerStep(i) => reqs[i].gate = GateStages
       /\ \A i \in Slots :
            (reqs'[i] # reqs[i] \/ resp'.op = "gate") =>
              \A h \in Headers :
                Gate(i, h) =>
                  LET bearer == h.scheme = "Bearer" /\ h.cred # NoToken
                      valid == h.cred.sig = "secret" /\ now < h.cred.exp
                  IN  /\ ~bearer => Rejected("not_authorized", <<"Unauthenticated">>)
                      /\ (bearer /\ ~valid) =>
                           Rejected("invalid_or_expired", <<"Unauthenticated", "TokenPresent">>)
                      /\ (bearer /\ valid /\ h.cred.id \notin UserIds) =>
                           Rejected("user_not_found",
                                    <<"Unauthenticated", "TokenPresent", "TokenValid">>)
                      /\ (bearer /\ valid /\ h.cred.id \in UserIds) =>
                           /\ resp' = NoResp
                           /\ reqs'[i].pc = "Authorized"
                           /\ reqs'[i].gate = GateStages]_vars

\* C3 witness: with an account registered and a book stored, a request whose
\* token is valid but whose account is gone has been rejected after
\* TokenValid
C3_Witness ==
    /\ resp.op = "gate"
    /\ resp.status = 401
    /\ resp.msg = "user_not_found"
    /\ resp.gate = <<"Unauthenticated", "TokenPresent", "TokenValid">>
    /\ books # {}

\* C4: a token is issued for the account whose credentials were presented
\* and every client holds a token of its own account; the gate resolves a
\* token to the account it was issued for and to no other; a token whose
\* expiry has passed is rejected 401 although its signature is good.
C4_TokenResolvesToItsAccount ==
    [][/\ \A a \in AccountIds :
            held'[a] # NoToken => held'[a].id = a /\ held'[a].sig = "secret"
       /\ (resp = NoResp /\ resp'.token # NoToken) =>
            /\ resp'.token = [id |-> resp'.id, exp |-> now + JWT_EXPIRE, sig |-> "secret"]
            /\ resp'.id \in {u.id : u \in users'}
       /\ \A e \in RegEmails : \A p \in LoginPasswords :
            (Login(e, p) /\ resp'.status = 200) =>
              \E u \in users : /\ u.email = ToLowerCase(e)
                               /\ u.password = BcryptHash(p)
                               /\ u.id = resp'.token.id
       /\ \A i \in Slots : \A h \in Headers :
            Gate(i, h) =>
              /\ reqs'[i] # reqs[i] =>
                   /\ reqs'[i].user = h.cred.id
                   /\ h.cred.sig = "secret"
                   /\ now < h.cred.exp
              /\ (h.scheme = "Bearer" /\ h.cred # NoToken /\ now >= h.cred.exp) =>
                   Rejected("invalid_or_expired", <<"Unauthenticated", "TokenPresent">>)
       /\ \A i \in Slots : Me(i) => resp'.id = reqs[i].user]_vars

\* C4 witness: the token account 2 was issued, well-formed and signed, has
\* been rejected as expired while account 1 holds a token that is still good
C4_Witness ==
    /\ resp.op = "gate"
    /\ resp.status = 401
    /\ resp.err = "TokenExpiredError"
    /\ held[2] # NoToken /\ held[2].exp <= now
    /\ held[1] # NoToken /\ now < held[1].exp

\* the action kind logged for a mutation
KindOf(op) == CASE op = "post" -> "ADD" [] op = "put" -> "EDIT" [] op = "delete" -> "DELETE"

\* the step answers a create, an update or a delete with success
MutationSucceeds ==
    resp = NoResp /\ resp'.op \in {"post", "put", "delete"} /\ resp'.status \in {200, 201}

\* C5: the step that answers a create, an update or a delete with success
\* has appended exactly one activity log entry, of kind ADD, EDIT or DELETE
\* respectively, owned by the account that made the change and naming the
\* book; a handler appends no entry in any other step.
C5_SuccessHasOneLogEntry ==
    [][/\ MutationSucceeds =>
            /\ Len(logs') = Len(logs) + 1
            /\ SubSeq(logs', 1, Len(logs)) = logs
            /\ logs'[Len(logs')].action = KindOf(resp'.op)
            /\ \E i \in Slots :
                 /\ reqs[i].pc \in {"post_log", "put_log", "delete_log"}
                 /\ reqs' = Finish(i)
                 /\ resp'.data = reqs[i].doc
                 /\ logs'[Len(logs')].user = reqs[i].user
                 /\ logs'[Len(logs')].user = reqs[i].doc[1].user
       /\ Len(logs') > Len(logs) => MutationSucceeds]_vars

\* C5 witness: a delete has been answered 200 and the log holds the ADD of
\* the book followed by its DELETE, both of the deleting account
C5_Witness ==
    /\ resp.op = "delete"
    /\ resp.status = 200
    /\ Len(logs) = 2
    /\ logs[1].action = "ADD" /\ logs[2].action = "DELETE"
    /\ logs[1].user = resp.data[1].user /\ logs[2].user = resp.data[1].user

\* C6: when the book has been created, updated or deleted and the write of
\* the activity log entry fails, the request is still answered with success
\* (201 or 200) and the record.
C6_LogFailureStillSuccess ==
    [][\A i \in Slots :
         (PostLog(i, FALSE) \/ PutLog(i, FALSE) \/ DeleteLog(i, FALSE))
         => (resp'.status \in {200, 201} /\ resp'.data = reqs[i].doc)]_vars

\* C7: when account B saves a new book whose ISBN another account A holds
\* and B itself does not, the book is stored alongside A's (and the create
\* goes on to its log entry and 201).
C7_SameIsbnAcrossAccounts ==
    [][\A i \in Slots :
         (/\ PostSave(i)
          /\ \E b \in books : b.user # reqs[i].user /\ b.isbn = reqs[i].doc[1].isbn
          /\ \A b \in books : b.user = reqs[i].user => b.isbn # reqs[i].doc[1].isbn)
         => (/\ books' = books \cup {reqs[i].doc[1]}
             /\ reqs'[i].pc = "post_log"
             /\ resp' = NoResp)]_vars

\* C8: in every reachable state no two books of the same account have the
\* same ISBN (and no two books the same _id).
C8_IsbnUniquePerAccount ==
    \A b1 \in books : \A b2 \in books :
        /\ (b1.user = b2.user /\ b1.isbn = b2.isbn) => b1 = b2
        /\ b1.id = b2.id => b1 = b2

\* C8 witness: an account holds two books and its update of the first to the
\* ISBN of the second has been refused by the index
C8_Witness ==
    /\ resp.op = "put"
    /\ resp.err = "E11000"
    /\ \E b1 \in books : \E b2 \in books :
         /\ b1.id = resp.id /\ b2.id # b1.id
         /\ b1.user = b2.user
         /\ b1.isbn = IsbnA /\ b2.isbn = IsbnB

\* the four required fields of a create body are present
AllPresent(body) ==
    body.title # Missing /\ body.author # Missing /\ body.isbn # Missing /\ body.year # Missing

\* C9: a create whose four fields are present and whose ISBN, trimmed, is
\* the ISBN of a book the same account holds is answered 400 'already
\* exists in your library' in its first step; no book is added or changed
\* and no activity log entry is written.
C9_DuplicateIsbnRejected ==
    [][\A i \in Slots :
         CreateStarts(i) =>
           \A body \in CreateBodies :
             (/\ PostFind(i, body)
              /\ AllPresent(body)
              /\ \E b \in books : b.user = reqs[i].user /\ b.isbn = Trim(body.isbn))
             => (/\ resp'.status = 400
                 /\ resp'.msg = "isbn_exists_in_library"
                 /\ reqs' = Finish(i)
                 /\ books' = books
                 /\ logs' = logs)]_vars

\* C9 witness: the account's only book has ISBN 9780441013 and a further
\* create of the account has been answered 400 'already exists'
C9_Witness ==
    /\ resp.op = "post"
    /\ resp.status = 400
    /\ resp.msg = "isbn_exists_in_library"
    /\ Cardinality(books) = 1
    /\ \A b \in books : b.isbn = IsbnA
    /\ Len(logs) = 1

\* the year of a create body is a number within [1000, currentYear + 1]
YearInRange(y) ==
    ParseInt(y) # <<>> /\ ParseInt(y)[1] >= YearMin /\ ParseInt(y)[1] <= CurrentYear + 1

\* the body omits a field, or its ISBN has fewer than 10 characters, or its
\* year is outside the range
BadCreate(body) ==
    \/ ~AllPresent(body)
    \/ Len(Trim(body.isbn)) < IsbnMinLen
    \/ ~YearInRange(body.year)

NumberOf(x) ==
    LET s == Trim(x) IN
    IF s # <<>> /\ DigitPrefix(s) = s THEN <<Horner(0, s)>> ELSE <<>>

\* document d holds the submitted values of body: the strings trimmed, the
\* year as the number submitted
HoldsSubmitted(d, body) ==
    /\ d.title = Trim(body.title)
    /\ d.author = Trim(body.author)
    /\ d.isbn = Trim(body.isbn)
    /\ d.year = NumberOf(body.year)

\* C11: the document a create sends to save holds the submitted title,
\* author and isbn trimmed and the submitted year; save stores that
\* document, the 201 returns it with its id, no step other than an update or
\* a delete changes it, and a get of the id by its owner returns the stored
\* document.
C11_CreateGetRoundTrip ==
    [][\A i \in Slots :
         /\ CreateStarts(i) =>
              \A body \in CreateBodies :
                (PostFind(i, body) /\ nextId' # nextId)
                => HoldsSubmitted(reqs'[i].doc[1], body)
         /\ (PostSave(i) /\ books' # books) => books' = books \cup {reqs[i].doc[1]}
         /\ PostLog(i, TRUE) => (resp'.status = 201 /\ resp'.data = reqs[i].doc)
         /\ (books' # books /\ HandlerStep(i)) =>
              reqs[i].pc \in {"post_save", "put_save", "Authorized"}
         /\ \A id \in BookIdInputs :
              (GetBook(i, id) /\ resp'.status = 200)
              => (/\ resp'.data[1] \in books
                  /\ resp'.data[1].id = id
                  /\ resp'.data[1].user = reqs[i].user)]_vars

\* the ids of the documents that requests in flight are about to insert
PendingIds == {reqs[j].doc[1].id : j \in {k \in Slots : reqs[k].pc = "post_save"}}

\* C12: a delete removes exactly the owner's book with that id and keeps its
\* state as it was immediately before; the 200 returns that state and the
\* DELETE entry holds its title, author, isbn and year; a removed id never
\* comes back (ids are fresh, only the insert of a create adds one), so every
\* later get of it is answered 404; log entries are only removed by a clear
\* of the log, so the entry stays readable without the book.
C12_DeleteThenGone ==
    [][/\ \A i \in Slots :
            /\ \A id \in BookIdInputs :
                 (DeleteFind(i, id) /\ books' # books)
                 => \E b \in books :
                      /\ b.id = id /\ b.user = reqs[i].user
                      /\ books' = books \ {b}
                      /\ reqs'[i].pc = "delete_log"
                      /\ reqs'[i].doc = <<b>>
            /\ DeleteLog(i, TRUE) =>
                 LET b == reqs[i].doc[1]
                     e == logs'[Len(logs')]
                 IN  /\ resp'.status = 200
                     /\ resp'.data = <<b>>
                     /\ b.id \notin BookIds
                     /\ e.action = "DELETE"
                     /\ e.user = b.user
                     /\ e.bookTitle = b.title
                     /\ e.details = [author |-> b.author, isbn |-> b.isbn, year |-> b.year]
            /\ \A id \in BookIdInputs \ {BadId} :
                 (GetBook(i, id) /\ id \notin BookIds) => resp'.status = 404
       /\ \A id \in BookIds' \ BookIds : id \in PendingIds
       /\ PendingIds \cap BookIds = {}
       /\ \A id \in PendingIds' \ PendingIds : id = nextId + 1 /\ nextId' = id
       /\ \A id \in PendingIds \cup BookIds : id <= nextId
       /\ Len(logs') < Len(logs) => resp'.op = "clear"]_vars

\* C12 witness: the history returned to an account shows the DELETE entry of
\* a book that is no longer in the collection
C12_Witness ==
    /\ resp.op = "history"
    /\ resp.status = 200
    /\ \E k \in 1..Len(resp.data) :
         /\ resp.data[k].action = "DELETE"
         /\ resp.data[k].bookTitle = Dune
         /\ resp.data[k].details.isbn = IsbnA
    /\ books = {}

\* C13: the write of an update replaces one book, the one with the id asked
\* for; its owner, its id and its creation time stay, and so does every
\* field among title, author, isbn and year that the request body did not
\* supply; all other books stay as they are; the book returned with the 200
\* belongs to the account that asked.
C13_UpdateChangesOnlySupplied ==
    [][\A i \in Slots :
         /\ (PutSave(i) /\ books' # books) =>
              \E stored \in books : \E written \in books' :
                /\ stored.id = reqs[i].doc[1].id
                /\ written.id = stored.id
                /\ books' \ {written} = books \ {stored}
                /\ written.user = stored.user
                /\ written.user = reqs[i].user
                /\ written.createdAt = stored.createdAt
                /\ \A f \in BookFields :
                     reqs[i].body[1][f] = Missing => written[f] = stored[f]
         /\ PutLog(i, TRUE) =>
              /\ resp'.status = 200
              /\ resp'.data[1].user = reqs[i].user
              /\ resp'.data[1].id = reqs[i].doc[1].id
              /\ books' = books]_vars

\* C13 witness: an update that supplied only the year has been answered 200;
\* the stored book has the new year and its title, author and isbn as
\* created, and the account's other book is there as created
C13_Witness ==
    /\ resp.op = "put"
    /\ resp.status = 200
    /\ resp.body = <<[NoBody EXCEPT !.year = Year2027]>>
    /\ resp.data[1] \in books
    /\ resp.data[1].year = <<2027>>
    /\ resp.data[1].title = Dune /\ resp.data[1].author = Herb /\ resp.data[1].isbn = IsbnA
    /\ \E b \in books : b.id # resp.id /\ b.isbn = IsbnB /\ b.year = <<1965>>

\* the update body supplies an ISBN of fewer than 10 characters or a year
\* outside [1000, currentYear + 1]
BadUpdate(body) ==
    \/ Truthy(body.isbn) /\ Len(Trim(body.isbn)) < IsbnMinLen
    \/ Truthy(body.year) /\ ~YearInRange(body.year)

\* C14: an update by the owner that supplies an ISBN of fewer than 10
\* characters or a year outside [1000, currentYear + 1] is answered 400; the
\* stored books stay as they are and no log entry is written.
C14_InvalidUpdateRejected ==
    [][\A i \in Slots :
         UpdateStarts(i) =>
           \A id \in BookIds : \A body \in UpdateBodies :
             (PutFind(i, id, body) /\ FindBook(id, reqs[i].user) # {} /\ BadUpdate(body)) =>
               /\ resp'.status = 400
               /\ books' = books
               /\ logs' = logs]_vars

\* the two strings are equal when the case of their letters is ignored
EqualIgnoringCase(a, b) ==
    /\ Len(a) = Len(b)
    /\ \A k \in 1..Len(a) : LowerChar(a[k]) = LowerChar(b[k])

\* C15: a register with name, email and password, whose email equals,
\* ignoring case, the email of an existing account, is answered 400 'email
\* already exists' in its first step: no insert follows, the accounts and
\* the tokens held stay as they are and the response carries no token.
C15_DuplicateEmailRejected ==
    [][\A i \in Slots : \A b \in RegisterBodies :
         (/\ RegisterFind(i, b.name, b.email, b.password)
          /\ Truthy(b.name) /\ Truthy(b.email) /\ Truthy(b.password)
          /\ \E u \in users : EqualIgnoringCase(u.email, b.email)) =>
            /\ resp'.status = 400
            /\ resp'.msg = "email_exists"
            /\ resp'.token = NoToken
            /\ users' = users
            /\ held' = held
            /\ reqs' = reqs]_vars

\* C15 witness: the account of a@x exists and a register with A@X has just
\* been answered 400
C15_Witness ==
    /\ resp.op = "register"
    /\ resp.status = 400
    /\ resp.body # <<>>
    /\ resp.body[1].email = EmailAUpper
    /\ \E u \in users : u.email = EmailA
    /\ \A u \in users : u.email # EmailAUpper

\* C16: no two accounts have emails that are equal ignoring case, not even
\* after two registrations with the same email both passed the lookup before
\* either was inserted.
C16_EmailUniqueIgnoringCase ==
    \A u \in users : \A v \in users :
        EqualIgnoringCase(u.email, v.email) => u = v

\* C16 witness: of two registrations with the same email up to case that
\* both passed the lookup, one was inserted and the other has just been
\* refused by the unique index
C16_Witness ==
    /\ resp.op = "register"
    /\ resp.err = "E11000"
    /\ Cardinality(users) = 1

\* the accounts whose email equals e ignoring case
AccountsOf(e) == {u \in users : EqualIgnoringCase(u.email, e)}

\* C17: a login with email and password that names no account, and a login
\* that names an account with another password than the one sent, send the
\* same response to the client: status 401, the one message 'invalid email
\* or password', no data and no token; the tokens held stay as they are.
C17_FailedLoginsAlike ==
    [][\A e \in RegEmails : \A p \in LoginPasswords :
         (/\ Login(e, p)
          /\ \/ AccountsOf(e) = {}
             \/ \E u \in AccountsOf(e) : u.password # BcryptHash(p)) =>
            /\ Wire(resp') = Wire(Response("login", 401, "invalid_credentials"))
            /\ held' = held]_vars

\* C17 witness: the account of a@x exists and a login with its email and a
\* wrong password has just been answered 401
C17_Witness ==
    /\ resp.op = "login"
    /\ resp.status = 401
    /\ resp.body = <<[email |-> EmailA, password |-> Wrong]>>
    /\ \E u \in users : u.email = EmailA /\ u.password = BcryptHash(Secret)

\* the raw token presented by the reset request in slot i
TokenOf(i) == reqs[i].body[1].token

\* the reset requests in flight that passed the lookup
Resetting == {i \in Slots : reqs[i].pc = "reset_save"}

\* a successful reset leaves no account with the hash of its token
ClearedBy(i) ==
    ResetSave(i) =>
      /\ resp'.status = 200
      /\ \A u \in users' : u.resetPasswordToken # <<Sha256(TokenOf(i))>>
      /\ \A u \in users' : u.id = reqs[i].user =>
            u.resetPasswordToken = <<>> /\ u.resetPasswordExpire = <<>>

\* C18: at most one reset presenting a given raw token succeeds: a
\* successful reset clears the token fields, so that no account matches the
\* token afterwards, and when a reset succeeds no other reset presenting the
\* same token has passed the lookup and is about to replace the password too.
C18_TokenConsumedOnce ==
    [][\A i \in Slots :
         /\ ClearedBy(i)
         /\ ResetSave(i) =>
              \A j \in Resetting \ {i} : TokenOf(j) # TokenOf(i)]_vars

\* a successful reset clears the token fields (the part of C18 that holds)
C18_ClearedAfterReset == [][\A i \in Slots : ClearedBy(i)]_vars

\* the accounts that store the hash of the raw token k with an expiry later
\* than the current time
Redeemable(k) ==
    {u \in users : /\ u.resetPasswordToken = <<[sha256 |-> k]>>
                   /\ u.resetPasswordExpire # <<>>
                   /\ now < u.resetPasswordExpire[1]}

\* C19: the expiry generated with a reset token is one hour after the time
\* of its generation and is stored as generated; a reset is accepted (passes
\* the lookup) only when an account stores the hash of the token presented
\* with an expiry later than the current time, and otherwise it is answered
\* 400 in that step, with every account, its password and its reset fields
\* included, left as it was.
C19_ResetTokenExpires ==
    [][\A i \in Slots :
         /\ (reqs[i].pc = "idle" /\ reqs'[i].pc = "forgot_save") =>
               reqs'[i].doc[1].resetPasswordExpire = <<now + 1>>
         /\ \A sent \in BOOLEAN : ForgotSave(i, sent) =>
               \E u \in users' :
                  /\ u.id = reqs[i].user
                  /\ u.resetPasswordToken = reqs[i].doc[1].resetPasswordToken
                  /\ u.resetPasswordExpire = reqs[i].doc[1].resetPasswordExpire
         /\ (reqs[i].pc = "idle" /\ (resp'.op = "reset" \/ reqs'[i].pc = "reset_save")) =>
               \A k \in ResetTokens : \A p \in ResetPasswords :
                  ResetFind(i, k, p) =>
                     IF Redeemable(k) = {}
                     THEN resp'.status = 400 /\ users' = users /\ reqs' = reqs
                     ELSE resp'.status \in {0, 400} /\ users' = users]_vars

\* C19 witness: an account stores the hash of a token whose expiry is the
\* current time, and a reset presenting that token with a valid password
\* has just been answered 400 'invalid or expired'
C19_Witness ==
    /\ resp.op = "reset"
    /\ resp.status = 400
    /\ resp.msg = "invalid_or_expired"
    /\ resp.body[1].password = Fresh
    /\ \E u \in users : /\ u.resetPasswordToken = <<Sha256(resp.body[1].token)>>
                        /\ u.resetPasswordExpire = <<now>>
                        /\ u.password = BcryptHash(Secret)

\* the limit asked for by the query value q: 50 when none is given
AskedLimit(q) == IF q = Missing THEN DefaultLimit ELSE NumberOf(q)[1]

\* the positions of the log that hold entries of account u
EntriesOf(u) == {p \in 1..Len(logs) : logs[p].user = u}

Min(a, b) == IF a < b THEN a ELSE b

\* C20: a history request of account A with limit l (50 when none is given)
\* is answered 200 with entries of A only, in descending order of timestamp,
\* min(l, n) of them where n is the number of A's entries, none of them
\* older than an entry of A left out; books, log and accounts are unchanged.
C20_HistoryCapped ==
    [][\A i \in Slots :
         (reqs[i].pc = "Authorized" /\ resp'.op = "history") =>
           \A q \in LimitInputs :
             History(i, q) =>
               LET data == resp'.data IN
               /\ resp'.status = 200
               /\ \A k \in 1..Len(data) : data[k].user = reqs[i].user
               /\ \A k \in 1..Len(data) : \E p \in EntriesOf(reqs[i].user) : logs[p] = data[k]
               /\ \A k \in 1..(Len(data) - 1) : data[k].timestamp >= data[k + 1].timestamp
               /\ Len(data) = Min(AskedLimit(q), Cardinality(EntriesOf(reqs[i].user)))
               /\ \A p \in EntriesOf(reqs[i].user) :
                    (\A k \in 1..Len(data) : data[k] # logs[p]) =>
                       \A k \in 1..Len(data) : data[k].timestamp >= logs[p].timestamp
               /\ books' = books /\ logs' = logs /\ users' = users]_vars

\* the log entries of the accounts other than u, in insertion order
LogsOfOthers(l, u) == SelectSeq(l, LAMBDA e : e.user # u)

\* C21: a clear by account A is answered 200 and leaves no log entry of A;
\* the log entries of the other accounts, every book (A's included) and
\* every account stay as they were.
C21_ClearRemovesOwnOnly ==
    [][\A i \in Slots :
         ClearLogs(i) =>
           /\ resp'.status = 200
           /\ \A k \in 1..Len(logs') : logs'[k].user # reqs[i].user
           /\ logs' = LogsOfOthers(logs, reqs[i].user)
           /\ books' = books
           /\ users' = users]_vars

\* C21 witness: account 1 has just cleared its log; it had created a book,
\* which is still stored, and the entry of account 2's create is still there
C21_Witness ==
    /\ resp.op = "clear"
    /\ resp.id = 1
    /\ \E b \in books : b.user = 1
    /\ Len(logs) = 1
    /\ logs[1].user = 2 /\ logs[1].action = "ADD"
    /\ Cardinality(users) = 2

\* C22: the activity log is append-only: a step leaves the log as it is, or
\* adds one entry at its end and keeps every entry before it, or is a clear
\* of account A, which removes entries of A only and keeps the others as
\* they are; no entry is ever modified, and nothing but a clear of its owner
\* removes one.
C22_LogAppendOnly ==
    [][\/ logs' = logs
       \/ /\ Len(logs') = Len(logs) + 1
          /\ SubSeq(logs', 1, Len(logs)) = logs
       \/ \E i \in Slots :
             /\ ClearLogs(i)
             /\ logs' = LogsOfOthers(logs, reqs[i].user)]_vars

\* C22 witness: a book was created and deleted; the entry of its create is
\* still the first of the log, followed by the entry of its delete
C22_Witness ==
    /\ resp.op = "delete"
    /\ resp.status = 200
    /\ Len(logs) = 2
    /\ logs[1].action = "ADD" /\ logs[2].action = "DELETE"
    /\ logs[1].bookTitle = logs[2].bookTitle
    /\ logs[1].user = logs[2].user

\* the stored books of the account and ISBN of document d
SameIsbnOfAccount(B, d) == {b \in B : b.user = d.user /\ b.isbn = d.isbn}

\* C23: when the save of a create finds a book of the same account with the
\* same ISBN already stored (the other create passed the same lookup and
\* saved first), it is answered 400 'ISBN already exists' on the error of
\* the unique index: the books stay as they are, with one book of that
\* account and ISBN, the request ends without a log entry, and the create
\* that saved is the one whose single ADD entry is appended.
C23_ConcurrentCreateOneWins ==
    [][\A i \in Slots :
         /\ (PostSave(i) /\ SameIsbnOfAccount(books, reqs[i].doc[1]) # {}) =>
               /\ resp'.status = 400
               /\ resp'.msg = "isbn_exists"
               /\ books' = books
               /\ Cardinality(SameIsbnOfAccount(books', reqs[i].doc[1])) = 1
               /\ logs' = logs
               /\ reqs' = Finish(i)
         /\ (PostSave(i) /\ books' # books) =>
               /\ SameIsbnOfAccount(books', reqs[i].doc[1]) = {reqs[i].doc[1]}
               /\ reqs'[i].pc = "post_log"
         /\ PostLog(i, TRUE) =>
               /\ logs' = Append(logs, logs'[Len(logs')])
               /\ logs'[Len(logs')].action = "ADD"
               /\ logs'[Len(logs')].user = reqs[i].user
               /\ logs'[Len(logs')].details.isbn = reqs[i].doc[1].isbn
         /\ (Len(logs') > Len(logs) /\ HandlerStep(i)) =>
               reqs[i].pc \in {"post_log", "put_log", "delete_log"}]_vars

\* C23 witness: of two creates of the one account with the same ISBN that
\* both passed the lookup, one saved and wrote its ADD entry, and the other
\* has just been refused by the unique index
C23_Witness ==
    /\ resp.op = "post"
    /\ resp.status = 400
    /\ resp.err = "E11000"
    /\ Cardinality(users) = 1
    /\ Cardinality(books) = 1
    /\ Len(logs) = 1
    /\ logs[1].action = "ADD"
    /\ \A b \in books : logs[1].details.isbn = b.isbn /\ logs[1].user = b.user

\* the requests that wrote to the books collection and have not yet written
\* their log entry
Unlogged ==
    {j \in Slots : \/ reqs[j].pc \in {"post_log", "delete_log"}
                   \/ reqs[j].pc = "put_log" /\ reqs[j].mods # {}}

\* C24: no request is served between the book write of a mutating request
\* and its log write: while a request of account A has written its book and
\* not yet its log entry, no other request of A (a history read, a clear, a
\* book read or write) takes a step.
C24_NoStepBetweenWriteAndLog ==
    [][\A i \in Slots :
         (HandlerStep(i) /\ reqs[i].pc = "Authorized") =>
            \A j \in Unlogged \ {i} : reqs[j].user # reqs[i].user]_vars

\* the fields of a book that no unique index covers
NonUniqueFields == {"title", "author", "year"}

\* the stored book that the update in slot i loaded, if it is still stored
StoredOf(B, i) == {b \in B : b.id = reqs[i].doc[1].id}

\* after the save of the update in slot i, a field holds the value it held
\* before or the value the update assigned
NeverForeignValue(i) ==
    (reqs[i].pc = "put_save" /\ PutSave(i)) =>
       \A b \in StoredOf(books', i) : \A f \in NonUniqueFields :
          \/ b[f] = reqs[i].doc[1][f]
          \/ \E a \in StoredOf(books, i) : b[f] = a[f]

\* C25: of two updates of the same book that both loaded it before either
\* saved, both are answered 200, and when an update has saved, each of
\* title, author and year that its body supplied holds the value it
\* supplied, so that the update that saves last determines the stored
\* value; no field ever holds a value that neither the update nor the
\* state before its save supplied.
C25_LastWriteWins ==
    [][\A i \in Slots :
         /\ PutLog(i, TRUE) => resp'.status = 200
         /\ NeverForeignValue(i)
         /\ (reqs[i].pc = "put_save" /\ PutSave(i)) =>
              \A b \in StoredOf(books', i) : \A f \in NonUniqueFields :
                 Truthy(reqs[i].body[1][f]) => b[f] = reqs[i].doc[1][f]]_vars

\* both updates succeed and no field holds a foreign value (the part of C25
\* that holds)
C25_BothSucceed ==
    [][\A i \in Slots : (PutLog(i, TRUE) => resp'.status = 200) /\ NeverForeignValue(i)]_vars

\* the step is one in which the storage layer failed
StorageFailed == resp'.err = "storage" /\ resp' # resp

\* C26: whenever the storage layer fails while a request is served, during
\* the gate's account lookup after the token verified or during a book save,
\* the response is the generic 500 and never a 401, a 400 or a 404.
C26_StorageFailureIs500 ==
    [][StorageFailed => resp'.status = 500]_vars

\* a storage failure during a book save is answered 500 (the part of C26
\* that holds)
C26_SaveFailureIs500 ==
    [][(StorageFailed /\ resp'.op # "gate") => resp'.status = 500]_vars

\* value.isAuthenticated
isAuthenticated == client.user # <<>>

\* C27: in every state of the AuthProvider, isAuthenticated implies that a
\* session token is held, also when a theme update or the /auth/me request
\* of the page load was in flight at the logout.
C27_AuthenticatedHoldsToken ==
    isAuthenticated => client.token # NoToken

\* the deletes of book id that succeeded: those that removed it and have
\* yet to write their log entry, and the DELETE entries written
Deleting(id) == {j \in Slots : reqs[j].pc = "delete_log" /\ reqs[j].doc[1].id = id}
DeleteEntries(isbn) == {k \in 1..Len(logs) : logs[k].action = "DELETE" /\ logs[k].details.isbn = isbn}

\* C28: of two deletes of the same book by its owner that are in flight
\* together, the one that finds the book removes it, writes the DELETE entry
\* and is answered 200 with the record; the other finds nothing and is
\* answered 404 without a log entry; the book (created once) is never
\* deleted twice and never has two DELETE entries.
C28_ConcurrentDeleteOneWins ==
    [][/\ \A i \in Slots :
            /\ (reqs[i].pc = "Authorized" /\ DeleteFind(i, 1)) =>
                 IF \E b \in books : b.id = 1
                 THEN /\ books' = {b \in books : b.id # 1}
                      /\ reqs'[i].pc = "delete_log"
                      /\ reqs'[i].doc[1] \in books
                      /\ resp' = NoResp
                 ELSE /\ resp'.status = 404
                      /\ reqs' = Finish(i)
                      /\ books' = books /\ logs' = logs
            /\ DeleteLog(i, TRUE) =>
                 /\ resp'.status = 200
                 /\ resp'.data = reqs[i].doc
                 /\ logs'[Len(logs')].action = "DELETE"
                 /\ Len(logs') = Len(logs) + 1
       /\ Cardinality(Deleting(1))' + Cardinality(DeleteEntries(IsbnA))' <= 1]_vars

\* C28 witness: a delete of book 1 has just been answered 404 while the
\* delete that removed the book has yet to write its log entry
C28_Witness ==
    /\ resp.op = "delete"
    /\ resp.status = 404
    /\ resp.id = 1
    /\ Deleting(1) # {}
    /\ books = {}

\* the year typed into the edit form of the update in slot i, if any
YearEntered(i) ==
    IF "publishedYear" \in DOMAIN reqs[i].body[1] THEN reqs[i].body[1].publishedYear ELSE <<>>

\* C29: when an update sent by the edit modal, in which the user entered a
\* publication year, has saved, the stored book's year is the year entered.
C29_EditedYearStored ==
    [][\A i \in Slots :
         (reqs[i].pc = "put_save" /\ PutSave(i) /\ YearEntered(i) # <<>>) =>
            \E b \in books' : b.id = reqs[i].doc[1].id /\ b.year = NumberOf(YearEntered(i))]_vars

\* the step sends a failure response of forgot-password
ForgotFails == resp'.op = "forgot" /\ resp'.status \in {400, 404, 500}

\* C30: when a forgot-password request is answered with a failure (no
\* email given, unknown email, or the mail could not be sent), every
\* account's reset-token hash and expiry are as they were before the
\* request was served.
C30_FailedForgotLeavesNoToken ==
    [][ForgotFails => users' = users]_vars

\* a forgot-password request refused before its save (no email given,
\* unknown email) leaves the accounts as they are (the part of C30 that
\* holds)
C30_RefusedForgotLeavesAccounts ==
    [][(ForgotFails /\ resp'.status # 500) => users' = users]_vars

====
